---------------------------- MODULE Spec2Model ----------------------------
(* Version consistency checker (scripts/check_version_consistency.py).     *)
(* Texts are sequences of one-character strings; the regular expressions   *)
(* of the extractors and of the format validator are evaluated on them     *)
(* position by position.                                                   *)
EXTENDS Integers, Sequences, FiniteSets, TLC

VARIABLES fs, pc, versions, out, exit, raised, runs, v, verdict

vars == <<fs, pc, versions, out, exit, raised, runs, v, verdict>>

mainVars == <<fs, pc, versions, out, exit, raised, runs>>

fmtVars == <<v, verdict>>

(* ------------------------------ bounds --------------------------------- *)

MaxRuns == 2

MaxTail == 5

(* --------------------------- character classes ------------------------- *)

Digit == {"0", "1", "2", "3", "4", "5", "6", "7", "8", "9"}

Quote == {"\"", "'"}

WhiteSpace == {" ", "\t", "\n", "\r", "\f"}

Lower ==
    {"a", "b", "c", "d", "e", "f", "g", "h", "i", "j", "k", "l", "m", "n", "o", "p", "q", "r", "s", "t", "u", "v", "w", "x", "y", "z"}

Upper ==
    {"A", "B", "C", "D", "E", "F", "G", "H", "I", "J", "K", "L", "M", "N", "O", "P", "Q", "R", "S", "T", "U", "V", "W", "X", "Y", "Z"}

IdChar == Lower \cup Upper \cup Digit \cup {"-"}

(* ------------------------------- texts --------------------------------- *)

V100 ==
    <<"1", ".", "0", ".", "0">>

V101 ==
    <<"1", ".", "0", ".", "1">>

V10 ==
    <<"1", ".", "0">>

KeyDunderVersion ==
    <<"_", "_", "v", "e", "r", "s", "i", "o", "n", "_", "_">>

KeyVersion ==
    <<"v", "e", "r", "s", "i", "o", "n">>

FindVersionCall ==
    <<"f", "i", "n", "d", "_", "v", "e", "r", "s", "i", "o", "n", "(", ")">>

LitARG ==
    <<"A", "R", "G">>

LitVERSION ==
    <<"V", "E", "R", "S", "I", "O", "N">>

LitVERSIONColon ==
    <<"V", "E", "R", "S", "I", "O", "N", ":">>

InitV100 ==
    <<"_", "_", "v", "e", "r", "s", "i", "o", "n", "_", "_", " ", "=", " ", "\"", "1", ".", "0", ".", "0", "\"", "\n">>

InitV101 ==
    <<"#", " ", "p", "k", "g", "\n", "_", "_", "v", "e", "r", "s", "i", "o", "n", "_", "_", " ", "=", " ", "'", "1", ".", "0", ".", "1", "'", "\n">>

InitV10 ==
    <<"_", "_", "v", "e", "r", "s", "i", "o", "n", "_", "_", "=", "\"", "1", ".", "0", "\"">>

InitNoMatch ==
    <<" ", "_", "_", "v", "e", "r", "s", "i", "o", "n", "_", "_", " ", "=", " ", "\"", "1", ".", "0", ".", "0", "\"">>

PyprojectV100 ==
    <<"[", "p", "r", "o", "j", "e", "c", "t", "]", "\n", "v", "e", "r", "s", "i", "o", "n", " ", "=", " ", "\"", "1", ".", "0", ".", "0", "\"", "\n">>

PyprojectV101 ==
    <<"v", "e", "r", "s", "i", "o", "n", " ", "=", " ", "'", "1", ".", "0", ".", "1", "'">>

PyprojectV10 ==
    <<"v", "e", "r", "s", "i", "o", "n", "=", "\"", "1", ".", "0", "\"">>

PyprojectNoMatch ==
    <<"t", "a", "r", "g", "e", "t", "-", "v", "e", "r", "s", "i", "o", "n", " ", "=", " ", "\"", "1", ".", "0", ".", "0", "\"">>

SetupV100 ==
    <<"s", "e", "t", "u", "p", "(", "v", "e", "r", "s", "i", "o", "n", "=", "\"", "1", ".", "0", ".", "0", "\"", ")">>

SetupV101 ==
    <<"s", "e", "t", "u", "p", "(", "v", "e", "r", "s", "i", "o", "n", " ", "=", " ", "'", "1", ".", "0", ".", "1", "'", ")">>

SetupV10 ==
    <<"v", "e", "r", "s", "i", "o", "n", "=", "\"", "1", ".", "0", "\"">>

SetupFind ==
    <<"s", "e", "t", "u", "p", "(", "v", "e", "r", "s", "i", "o", "n", "=", "f", "i", "n", "d", "_", "v", "e", "r", "s", "i", "o", "n", "(", ")", ")">>

SetupLitAndFind ==
    <<"v", "=", "f", "i", "n", "d", "_", "v", "e", "r", "s", "i", "o", "n", "(", ")", "\n", "v", "e", "r", "s", "i", "o", "n", "=", "\"", "1", ".", "0", ".", "1", "\"">>

SetupNeither ==
    <<"s", "e", "t", "u", "p", "(", "n", "a", "m", "e", "=", "\"", "x", "\"", ")">>

DockerV100 ==
    <<"A", "R", "G", " ", "V", "E", "R", "S", "I", "O", "N", "=", "1", ".", "0", ".", "0", "\n">>

DockerV101 ==
    <<"A", "R", "G", " ", " ", "V", "E", "R", "S", "I", "O", "N", " ", "=", " ", "\"", "1", ".", "0", ".", "1", "\"">>

DockerNoMatch ==
    <<"F", "R", "O", "M", " ", "p", "y", "t", "h", "o", "n">>

WorkflowV100 ==
    <<"V", "E", "R", "S", "I", "O", "N", ":", " ", "\"", "1", ".", "0", ".", "0", "\"", "\n">>

WorkflowV101 ==
    <<"e", "n", "v", ":", "\n", " ", " ", "V", "E", "R", "S", "I", "O", "N", ":", " ", "1", ".", "0", ".", "1">>

WorkflowNoMatch ==
    <<"o", "n", ":", " ", "p", "u", "s", "h">>

(* ------------------------- optional values ----------------------------- *)

None == [some |-> FALSE, val |-> <<>>]

Some(x) == [some |-> TRUE, val |-> x]

(* ----------------------------- files ----------------------------------- *)

Absent == [kind |-> "absent", text |-> <<>>]

Unreadable == [kind |-> "unreadable", text |-> <<>>]

Text(t) == [kind |-> "text", text |-> t]

Files == <<"__init__.py", "pyproject.toml", "setup.py", "Dockerfile", "GitHub workflow">>

FileSet == {Files[i] : i \in 1..Len(Files)}

Contents ==
    [f \in FileSet |->
        CASE f = "__init__.py" ->
                {Absent, Unreadable, Text(InitV100), Text(InitV101), Text(InitV10), Text(InitNoMatch)}
          [] f = "pyproject.toml" ->
                {Absent, Unreadable, Text(PyprojectV100), Text(PyprojectV101), Text(PyprojectV10),
                 Text(PyprojectNoMatch)}
          [] f = "setup.py" ->
                {Absent, Unreadable, Text(SetupV100), Text(SetupV101), Text(SetupV10), Text(SetupFind),
                 Text(SetupLitAndFind), Text(SetupNeither)}
          [] f = "Dockerfile" ->
                {Absent, Unreadable, Text(DockerV100), Text(DockerV101), Text(DockerNoMatch)}
          [] OTHER ->
                {Absent, Unreadable, Text(WorkflowV100), Text(WorkflowV101), Text(WorkflowNoMatch)}]

(* --------------------------- output lines ------------------------------ *)

Line(k, f, fl, ver) == [kind |-> k, file |-> f, files |-> fl, version |-> ver]

HeaderLine == Line("checking", "", <<>>, <<>>)

NotFoundLine(f) == Line("not_found", f, <<>>, <<>>)

NoVersionLine(f) == Line("no_version_in", f, <<>>, <<>>)

NoInfoLine == Line("no_version_information", "", <<>>, <<>>)

MismatchLine == Line("version_mismatch", "", <<>>, <<>>)

PairLine(f, ver) == Line("pair", f, <<>>, ver)

EnsureLine == Line("please_ensure_consistent", "", <<>>, <<>>)

InvalidLine(ver) == Line("invalid_format", "", <<>>, ver)

SemverHintLine == Line("should_follow_semver", "", <<>>, <<>>)

MissingRequiredLine(fl) == Line("missing_from_required", "", fl, <<>>)

ConsistentLine(ver) == Line("all_consistent", "", <<>>, ver)

FoundInLine(fl) == Line("found_in", "", fl, <<>>)

(* ------------------------ regular expressions -------------------------- *)

\* ^ under re.MULTILINE: start of the text or just after a newline
IsLineStart(t, i) == i = 1 \/ t[i - 1] = "\n"

\* the literal lit occurs in t at position i
HasAt(t, i, lit) ==
    /\ i + Len(lit) - 1 <= Len(t)
    /\ \A k \in 1..Len(lit) : t[i + k - 1] = lit[k]

\* 'lit' in t
Contains(t, lit) == \E i \in 1..Len(t) : HasAt(t, i, lit)

RECURSIVE SkipWs(_, _)
\* \s* (greedy) from position i: the first position that is not whitespace
SkipWs(t, i) ==
    IF i <= Len(t) /\ t[i] \in WhiteSpace THEN SkipWs(t, i + 1) ELSE i

RECURSIVE RunEnd(_, _, _)
\* [^stop]* (greedy) from position i: the first position holding a stop character, or Len(t)+1
RunEnd(t, i, stop) ==
    IF i <= Len(t) /\ t[i] \notin stop THEN RunEnd(t, i + 1, stop) ELSE i

\* key\s*=\s*["']([^"']+)["'] matched at position i: the captured group, or None
MatchQuotedAssign(t, i, key) ==
    IF ~HasAt(t, i, key) THEN None
    ELSE LET b == SkipWs(t, i + Len(key)) IN
         IF ~(b <= Len(t) /\ t[b] = "=") THEN None
         ELSE LET c == SkipWs(t, b + 1) IN
              IF ~(c <= Len(t) /\ t[c] \in Quote) THEN None
              ELSE LET e == RunEnd(t, c + 1, Quote) IN
                   IF e > c + 1 /\ e <= Len(t) THEN Some(SubSeq(t, c + 1, e - 1)) ELSE None

\* re.search of [^]key\s*=\s*["']([^"']+)["']: the group of the leftmost match
SearchQuotedAssign(t, key, anchored) ==
    LET hits == {i \in 1..Len(t) :
                    /\ anchored => IsLineStart(t, i)
                    /\ MatchQuotedAssign(t, i, key).some}
    IN IF hits = {} THEN None
       ELSE MatchQuotedAssign(t, CHOOSE i \in hits : \A j \in hits : i <= j, key)

\* ["']?([^"'\s]+) matched at position i: the captured group, or None
MatchBareValue(t, i) ==
    LET d == IF i <= Len(t) /\ t[i] \in Quote THEN i + 1 ELSE i
        e == RunEnd(t, d, Quote \cup WhiteSpace)
    IN IF e > d THEN Some(SubSeq(t, d, e - 1)) ELSE None

\* ARG\s+VERSION\s*=\s*["']?([^"'\s]+) matched at position i
MatchDockerArg(t, i) ==
    IF ~HasAt(t, i, LitARG) THEN None
    ELSE LET a == i + Len(LitARG)
             b == SkipWs(t, a)
         IN IF ~(b > a /\ HasAt(t, b, LitVERSION)) THEN None
            ELSE LET c == SkipWs(t, b + Len(LitVERSION)) IN
                 IF ~(c <= Len(t) /\ t[c] = "=") THEN None
                 ELSE MatchBareValue(t, SkipWs(t, c + 1))

\* VERSION:\s*["']?([^"'\s]+) matched at position i
MatchWorkflowKey(t, i) ==
    IF ~HasAt(t, i, LitVERSIONColon) THEN None
    ELSE MatchBareValue(t, SkipWs(t, i + Len(LitVERSIONColon)))

SearchDockerArg(t) ==
    LET hits == {i \in 1..Len(t) : MatchDockerArg(t, i).some}
    IN IF hits = {} THEN None
       ELSE MatchDockerArg(t, CHOOSE i \in hits : \A j \in hits : i <= j)

SearchWorkflowKey(t) ==
    LET hits == {i \in 1..Len(t) : MatchWorkflowKey(t, i).some}
    IN IF hits = {} THEN None
       ELSE MatchWorkflowKey(t, CHOOSE i \in hits : \A j \in hits : i <= j)

(* --------------------------- format validator -------------------------- *)

\* \d+ : the positions reachable from a position of P over one or more digits
DigitsFrom(s, P) ==
    {q \in 1..(Len(s) + 1) : \E p \in P : p < q /\ \A k \in p..(q - 1) : s[k] \in Digit}

\* a literal character c
CharFrom(s, P, c) ==
    {p + 1 : p \in {q \in P : q <= Len(s) /\ s[q] = c}}

\* [a-zA-Z0-9-]+(?:\.[a-zA-Z0-9-]+)* : dot-separated non-empty identifiers
IdentsFrom(s, P) ==
    {q \in 1..(Len(s) + 1) : \E p \in P :
        /\ p < q
        /\ \A k \in p..(q - 1) : s[k] \in IdChar \cup {"."}
        /\ s[p] # "." /\ s[q - 1] # "."
        /\ \A k \in p..(q - 2) : ~(s[k] = "." /\ s[k + 1] = ".")}

\* $ without re.MULTILINE: the end of the string, or just before a newline that ends it
AtDollar(s, p) == p = Len(s) + 1 \/ (p = Len(s) /\ s[p] = "\n")

validate_version_format(s) ==
    LET core  == DigitsFrom(s, CharFrom(s, DigitsFrom(s, CharFrom(s, DigitsFrom(s, {1}), ".")), "."))
        pre   == core \cup IdentsFrom(s, CharFrom(s, core, "-"))
        build == pre \cup IdentsFrom(s, CharFrom(s, pre, "+"))
    IN \E p \in build : AtDollar(s, p)

(* ------------------------------ extractors ----------------------------- *)
\* Each extractor yields what it returns (ret), the lines it prints (printed)
\* and whether read_text raised (raised).

Outcome(r, p) == [raised |-> FALSE, ret |-> r, printed |-> p]

Raise == [raised |-> TRUE, ret |-> None, printed |-> <<>>]

extract_version_from_init(f) ==
    IF f.kind = "absent" THEN Outcome(None, <<NotFoundLine("__init__.py")>>)
    ELSE IF f.kind = "unreadable" THEN Raise
    ELSE LET m == SearchQuotedAssign(f.text, KeyDunderVersion, TRUE) IN
         IF m.some THEN Outcome(m, <<>>)
         ELSE Outcome(None, <<NoVersionLine("__init__.py")>>)

extract_version_from_pyproject(f) ==
    IF f.kind = "absent" THEN Outcome(None, <<NotFoundLine("pyproject.toml")>>)
    ELSE IF f.kind = "unreadable" THEN Raise
    ELSE LET m == SearchQuotedAssign(f.text, KeyVersion, TRUE) IN
         IF m.some THEN Outcome(m, <<>>)
         ELSE Outcome(None, <<NoVersionLine("pyproject.toml")>>)

\* variant: the find_version() test comes before the search for a literal
extract_version_from_setup_FindFirst(f, initf) ==
    IF f.kind = "absent" THEN Outcome(None, <<>>)
    ELSE IF f.kind = "unreadable" THEN Raise
    ELSE IF Contains(f.text, FindVersionCall) THEN extract_version_from_init(initf)
    ELSE Outcome(SearchQuotedAssign(f.text, KeyVersion, FALSE), <<>>)

extract_version_from_setup(f, initf) ==
    IF f.kind = "absent" THEN Outcome(None, <<>>)
    ELSE IF f.kind = "unreadable" THEN Raise
    ELSE LET m == SearchQuotedAssign(f.text, KeyVersion, FALSE) IN
         IF m.some THEN Outcome(m, <<>>)
         ELSE IF Contains(f.text, FindVersionCall) THEN extract_version_from_init(initf)
         ELSE Outcome(None, <<>>)

\* variant: a Dockerfile without the build argument is reported like a mandatory file
extract_version_from_dockerfile_Reports(f) ==
    IF f.kind = "absent" THEN Outcome(None, <<>>)
    ELSE IF f.kind = "unreadable" THEN Raise
    ELSE LET m == SearchDockerArg(f.text) IN
         IF m.some THEN Outcome(m, <<>>) ELSE Outcome(None, <<NoVersionLine("Dockerfile")>>)

extract_version_from_dockerfile(f) ==
    IF f.kind = "absent" THEN Outcome(None, <<>>)
    ELSE IF f.kind = "unreadable" THEN Raise
    ELSE Outcome(SearchDockerArg(f.text), <<>>)

\* variant: an absent workflow file is reported like a mandatory file
extract_version_from_github_workflow_Reports(f) ==
    IF f.kind = "absent" THEN Outcome(None, <<NotFoundLine("GitHub workflow")>>)
    ELSE IF f.kind = "unreadable" THEN Raise
    ELSE Outcome(SearchWorkflowKey(f.text), <<>>)

extract_version_from_github_workflow(f) ==
    IF f.kind = "absent" THEN Outcome(None, <<>>)
    ELSE IF f.kind = "unreadable" THEN Raise
    ELSE Outcome(SearchWorkflowKey(f.text), <<>>)

(* ------------------------------ reconciler ----------------------------- *)

NoVersions == [f \in FileSet |-> None]

\* found_versions, in the insertion order of the versions dict
found_versions(vs) == SelectSeq(Files, LAMBDA f : vs[f].some)

unique_versions(vs) == {vs[f].val : f \in {g \in FileSet : vs[g].some}}

required_files == <<"__init__.py", "pyproject.toml">>

\* variant: only the first required file is looked up
missing_files_FirstOnly(vs) == SelectSeq(SubSeq(required_files, 1, 1), LAMBDA f : ~vs[f].some)

missing_files(vs) == SelectSeq(required_files, LAMBDA f : ~vs[f].some)

\* variant: the report lists the required files only
mismatch_report_RequiredOnly(vs) ==
    LET found == SelectSeq(required_files, LAMBDA f : vs[f].some) IN
    <<MismatchLine>> \o [i \in 1..Len(found) |-> PairLine(found[i], vs[found[i]].val)]
                     \o <<EnsureLine>>

mismatch_report(vs) ==
    LET found == found_versions(vs) IN
    <<MismatchLine>> \o [i \in 1..Len(found) |-> PairLine(found[i], vs[found[i]].val)]
                     \o <<EnsureLine>>

\* variant: the format is not validated
reconcile_NoFormatCheck(vs) ==
    IF found_versions(vs) = <<>> THEN [code |-> 1, lines |-> <<NoInfoLine>>]
    ELSE IF Cardinality(unique_versions(vs)) > 1 THEN [code |-> 1, lines |-> mismatch_report(vs)]
    ELSE LET common_version == CHOOSE x \in unique_versions(vs) : TRUE IN
         IF missing_files(vs) # <<>>
         THEN [code |-> 1, lines |-> <<MissingRequiredLine(missing_files(vs))>>]
         ELSE [code |-> 0,
               lines |-> <<ConsistentLine(common_version), FoundInLine(found_versions(vs))>>]

\* variant: the required files are checked before the versions are compared
reconcile_RequiredFirst(vs) ==
    IF found_versions(vs) = <<>> THEN [code |-> 1, lines |-> <<NoInfoLine>>]
    ELSE IF missing_files(vs) # <<>>
    THEN [code |-> 1, lines |-> <<MissingRequiredLine(missing_files(vs))>>]
    ELSE IF Cardinality(unique_versions(vs)) > 1 THEN [code |-> 1, lines |-> mismatch_report(vs)]
    ELSE LET common_version == CHOOSE x \in unique_versions(vs) : TRUE IN
         IF ~validate_version_format(common_version)
         THEN [code |-> 1, lines |-> <<InvalidLine(common_version), SemverHintLine>>]
         ELSE [code |-> 0,
               lines |-> <<ConsistentLine(common_version), FoundInLine(found_versions(vs))>>]

\* main() from the filtering of the None values on: the exit code and the lines printed
reconcile(vs) ==
    IF found_versions(vs) = <<>> THEN [code |-> 1, lines |-> <<NoInfoLine>>]
    ELSE IF Cardinality(unique_versions(vs)) > 1 THEN [code |-> 1, lines |-> mismatch_report(vs)]
    ELSE LET common_version == CHOOSE x \in unique_versions(vs) : TRUE IN
         IF ~validate_version_format(common_version)
         THEN [code |-> 1, lines |-> <<InvalidLine(common_version), SemverHintLine>>]
         ELSE IF missing_files(vs) # <<>>
         THEN [code |-> 1, lines |-> <<MissingRequiredLine(missing_files(vs))>>]
         ELSE [code |-> 0,
               lines |-> <<ConsistentLine(common_version), FoundInLine(found_versions(vs))>>]

(* -------------------------------- state -------------------------------- *)
\* fs        the artifact files of the working directory
\* pc        the position of the process: idle, the extractor about to run,
\*           reconcile, done (main returned) or crashed (an exception left main)
\* versions  the versions dict of main, filled in entry by entry
\* out       the lines printed to standard output by the current run
\* exit      the value returned by main (-1 before it returns)
\* raised    an exception propagated out of main
\* runs      the finished runs: output, exit status and how the run ended
\* v, verdict  a candidate version string and the validator's answer on it

NoExit == 0 - 1

Idle ==
    /\ pc = "idle"
    /\ versions = NoVersions
    /\ out = <<>>
    /\ exit = NoExit
    /\ raised = FALSE

Init ==
    /\ fs \in [FileSet -> UNION {Contents[f] : f \in FileSet}]
    /\ \A f \in FileSet : fs[f] \in Contents[f]
    /\ Idle
    /\ runs = <<>>
    /\ v = <<>>
    /\ verdict = "unchecked"

\* python scripts/check_version_consistency.py: main() starts and prints its header
Invoke ==
    /\ pc = "idle"
    /\ Len(runs) < MaxRuns
    /\ pc' = "init"
    /\ out' = <<HeaderLine>>
    /\ versions' = NoVersions
    /\ exit' = NoExit
    /\ raised' = FALSE
    /\ UNCHANGED <<fs, runs, v, verdict>>

\* one entry of the versions dict: the extractor of file f runs, then control moves to nxt
Extract(at, f, res, nxt) ==
    /\ pc = at
    /\ IF res.raised
       THEN /\ pc' = "crashed"
            /\ raised' = TRUE
            /\ UNCHANGED <<versions, out>>
       ELSE /\ pc' = nxt
            /\ versions' = [versions EXCEPT ![f] = res.ret]
            /\ out' = out \o res.printed
            /\ UNCHANGED raised
    /\ UNCHANGED <<fs, exit, runs, v, verdict>>

ExtractInit ==
    Extract("init", "__init__.py", extract_version_from_init(fs["__init__.py"]), "pyproject")

ExtractPyproject ==
    Extract("pyproject", "pyproject.toml", extract_version_from_pyproject(fs["pyproject.toml"]), "setup")

ExtractSetup ==
    Extract("setup", "setup.py", extract_version_from_setup(fs["setup.py"], fs["__init__.py"]),
            "dockerfile")

ExtractDockerfile ==
    Extract("dockerfile", "Dockerfile", extract_version_from_dockerfile(fs["Dockerfile"]), "workflow")

ExtractWorkflow ==
    Extract("workflow", "GitHub workflow",
            extract_version_from_github_workflow(fs["GitHub workflow"]), "reconcile")

\* variant: on a mismatch the run rewrites setup.py
Reconcile_RewritesSetup ==
    /\ pc = "reconcile"
    /\ pc' = "done"
    /\ out' = out \o reconcile(versions).lines
    /\ exit' = reconcile(versions).code
    /\ fs' = IF Cardinality(unique_versions(versions)) > 1
             THEN [fs EXCEPT !["setup.py"] = Absent] ELSE fs
    /\ UNCHANGED <<versions, raised, runs, v, verdict>>

\* the rest of main(): filter, compare, validate, check the required files, return
Reconcile ==
    /\ pc = "reconcile"
    /\ pc' = "done"
    /\ out' = out \o reconcile(versions).lines
    /\ exit' = reconcile(versions).code
    /\ UNCHANGED <<fs, versions, raised, runs, v, verdict>>

\* sys.exit(main()): the process ends with main's value, or with status 1 and a
\* traceback when an exception left main
Exit ==
    /\ pc \in {"done", "crashed"}
    /\ runs' = Append(runs, [out |-> out, status |-> IF raised THEN 1 ELSE exit, crashed |-> raised])
    /\ pc' = "idle"
    /\ versions' = NoVersions
    /\ out' = <<>>
    /\ exit' = NoExit
    /\ raised' = FALSE
    /\ UNCHANGED <<fs, v, verdict>>

Next ==
    \/ Invoke
    \/ ExtractInit
    \/ ExtractPyproject
    \/ ExtractSetup
    \/ ExtractDockerfile
    \/ ExtractWorkflow
    \/ Reconcile
    \/ Exit

Spec == Init /\ [][Next]_vars

(* ------------------- the validator on candidate strings ---------------- *)

FmtChars == {"1", ".", "-", "+", "a", " ", "\n"}

Stems == {<<>>, <<"1", ".", "1", ".", "1">>}

InitFmt ==
    /\ fs = [f \in FileSet |-> Absent]
    /\ Idle
    /\ runs = <<>>
    /\ v \in Stems
    /\ verdict = "unchecked"

\* the candidate grows by one character, up to MaxTail characters after a stem
Grow ==
    /\ verdict = "unchecked"
    /\ \E s \in Stems : HasAt(v, 1, s) /\ Len(v) < Len(s) + MaxTail
    /\ \E c \in FmtChars : v' = Append(v, c)
    /\ UNCHANGED <<verdict, fs, pc, versions, out, exit, raised, runs>>

\* validate_version_format(v) is called
Validate ==
    /\ verdict = "unchecked"
    /\ verdict' = IF validate_version_format(v) THEN "valid" ELSE "invalid"
    /\ UNCHANGED <<v, fs, pc, versions, out, exit, raised, runs>>

NextFmt == Grow \/ Validate

SpecFmt == InitFmt /\ [][NextFmt]_vars

(* ============================== properties ============================= *)

\* the artifacts that contributed a value, and the distinct values contributed
Found == {f \in FileSet : versions[f].some}

Distinct == {versions[f].val : f \in Found}

Mandatory == {"__init__.py", "pyproject.toml"}

Optional == {"setup.py", "Dockerfile", "GitHub workflow"}

Returned == pc = "done"

LinesOf(kinds) == {i \in DOMAIN out : out[i].kind \in kinds}

\* C1: main() returns 0 exactly when both mandatory artifacts contributed a value,
\* all contributed values are one string and that string passes
\* validate_version_format; in every other case it returns 1.
C1_ExitCodeIffAllGatesPass ==
    Returned =>
        /\ exit \in {0, 1}
        /\ exit = 0 <=>
              /\ Mandatory \subseteq Found
              /\ \A f \in Found, g \in Found : versions[f].val = versions[g].val
              /\ \A f \in Found : validate_version_format(versions[f].val)

C1_Witness_AllFiveAgree ==
    /\ Returned
    /\ exit = 0
    /\ Found = FileSet

\* C2: when the found values are not all the same string, the verdict is failure
\* and the mismatch report has one line per artifact that contributed a value,
\* with that value, and no line for an absent one.
C2_MismatchListsEveryFoundPair ==
    (Returned /\ Cardinality(Distinct) > 1) =>
        /\ exit = 1
        /\ Cardinality(LinesOf({"version_mismatch"})) = 1
        /\ Cardinality(LinesOf({"pair"})) = Cardinality(Found)
        /\ {<<out[i].file, out[i].version>> : i \in LinesOf({"pair"})}
              = {<<f, versions[f].val>> : f \in Found}

C2_Witness_MismatchWithAbsent ==
    /\ Returned
    /\ Cardinality(Distinct) > 1
    /\ Cardinality(Found) = 3
    /\ LinesOf({"pair"}) # {}

\* C3: when the found values are unanimous and well-formed but a mandatory
\* artifact contributed no value, the verdict is failure and the message names
\* exactly the mandatory artifacts that are not among the found ones.
C3_MandatoryGate ==
    (/\ Returned
     /\ Cardinality(Distinct) = 1
     /\ \A f \in Found : validate_version_format(versions[f].val)
     /\ ~(Mandatory \subseteq Found)) =>
        /\ exit = 1
        /\ out[Len(out)].kind = "missing_from_required"
        /\ {out[Len(out)].files[i] : i \in DOMAIN out[Len(out)].files} = Mandatory \ Found
        /\ Len(out[Len(out)].files) = Cardinality(Mandatory \ Found)

C3_Witness_OptionalsAgreeMandatoryMissing ==
    /\ Returned
    /\ Found = Optional \cup {"__init__.py"}
    /\ Cardinality(Distinct) = 1
    /\ out[Len(out)].kind = "missing_from_required"

\* the grammar MAJOR.MINOR.PATCH[-identifiers][+identifiers] over the whole string
AllDigits(s) == Len(s) > 0 /\ \A k \in DOMAIN s : s[k] \in Digit

IsCore(s) ==
    \E i \in DOMAIN s, j \in DOMAIN s :
        /\ i < j
        /\ s[i] = "." /\ s[j] = "."
        /\ AllDigits(SubSeq(s, 1, i - 1))
        /\ AllDigits(SubSeq(s, i + 1, j - 1))
        /\ AllDigits(SubSeq(s, j + 1, Len(s)))

IsIdentifier(s) == Len(s) > 0 /\ \A k \in DOMAIN s : s[k] \in IdChar

RECURSIVE IsIdentifiers(_)
IsIdentifiers(s) ==
    \/ IsIdentifier(s)
    \/ \E i \in DOMAIN s :
          /\ s[i] = "."
          /\ IsIdentifier(SubSeq(s, 1, i - 1))
          /\ IsIdentifiers(SubSeq(s, i + 1, Len(s)))

IsSuffix(s, sign) == s = <<>> \/ (s[1] = sign /\ IsIdentifiers(Tail(s)))

IsSemVer(s) ==
    \E a \in 0..Len(s), b \in 0..Len(s) :
        /\ a <= b
        /\ IsCore(SubSeq(s, 1, a))
        /\ IsSuffix(SubSeq(s, a + 1, b), "-")
        /\ IsSuffix(SubSeq(s, b + 1, Len(s)), "+")

\* C4: validate_version_format accepts exactly the strings that, in their
\* entirety, follow the grammar; a string with an extra leading or trailing
\* character, a trailing space or newline included, is rejected.
C4_ValidatorAcceptsExactlyTheGrammar ==
    verdict # "unchecked" => (verdict = "valid" <=> IsSemVer(v))

\* C5: when both mandatory artifacts contribute the same well-formed version
\* and every optional file is either absent or contributes that version, the
\* verdict is success and nothing but the header and the two success lines is
\* printed, whichever optional files are absent.
C5_OptionalSilence ==
    (/\ Returned
     /\ Mandatory \subseteq Found
     /\ versions["__init__.py"] = versions["pyproject.toml"]
     /\ validate_version_format(versions["__init__.py"].val)
     /\ \A f \in Optional : fs[f] = Absent \/ versions[f] = versions["__init__.py"]) =>
        /\ exit = 0
        /\ Len(out) = 3
        /\ out[1] = HeaderLine
        /\ out[2] = ConsistentLine(versions["__init__.py"].val)
        /\ out[3].kind = "found_in"
        /\ {out[3].files[i] : i \in DOMAIN out[3].files}
              = Mandatory \cup {f \in Optional : fs[f] # Absent}

C5_Witness_SomeOptionalAbsent ==
    /\ Returned
    /\ exit = 0
    /\ fs["setup.py"] = Absent
    /\ fs["GitHub workflow"] = Absent
    /\ versions["Dockerfile"] = versions["__init__.py"]

\* no exception has left main, in the current run or in a finished one
NoExceptionSoFar ==
    /\ ~raised
    /\ \A i \in DOMAIN runs : ~runs[i].crashed

\* C8: whatever the state of the artifact files, an unreadable one included,
\* the run ends by main() returning 0 or 1 after printing a diagnostic; no
\* exception propagates out of an extractor.
C8_EveryRunReturnsFromMain ==
    /\ NoExceptionSoFar
    /\ Returned => (exit \in {0, 1} /\ Len(out) > 1)

\* a version="<value>" literal of the text t that starts at position i, has its
\* quotes at q1 and q2 and so the value val between them
KeyStarts(t) ==
    {i \in DOMAIN t :
        /\ i + Len(KeyVersion) - 1 <= Len(t)
        /\ SubSeq(t, i, i + Len(KeyVersion) - 1) = KeyVersion}

QuotePositions(t) == {q \in DOMAIN t : t[q] \in Quote}

LiteralAt(t, i, q1, q2) ==
    /\ q1 + 1 < q2
    /\ \A k \in (q1 + 1)..(q2 - 1) : t[k] \notin Quote
    /\ \E e \in (i + Len(KeyVersion))..(q1 - 1) :
          /\ t[e] = "="
          /\ \A k \in (i + Len(KeyVersion))..(e - 1) : t[k] \in WhiteSpace
          /\ \A k \in (e + 1)..(q1 - 1) : t[k] \in WhiteSpace

Literals(t) ==
    {lit \in KeyStarts(t) \X QuotePositions(t) \X QuotePositions(t) :
        LiteralAt(t, lit[1], lit[2], lit[3])}

HasLiteral(t) == Literals(t) # {}

FirstLiteral(t) ==
    LET lit == CHOOSE x \in Literals(t) : \A y \in Literals(t) : x[1] <= y[1]
    IN SubSeq(t, lit[2] + 1, lit[3] - 1)

CallsFindVersion(t) ==
    \E i \in DOMAIN t :
        /\ i + Len(FindVersionCall) - 1 <= Len(t)
        /\ SubSeq(t, i, i + Len(FindVersionCall) - 1) = FindVersionCall

\* setup.py has no literal version and calls find_version()
Delegating ==
    /\ fs["setup.py"].kind = "text"
    /\ ~HasLiteral(fs["setup.py"].text)
    /\ CallsFindVersion(fs["setup.py"].text)

SetupReturned == pc \in {"dockerfile", "workflow", "reconcile", "done"}

\* C10: for an existing setup.py, a literal version="<value>" anywhere in the
\* text is returned; without a literal but with find_version() the result is
\* the PackageInit result (the same value, or absent); with neither it is absent.
C10_SetupFallback ==
    (SetupReturned /\ fs["setup.py"].kind = "text") =>
        LET t == fs["setup.py"].text IN
        IF HasLiteral(t) THEN versions["setup.py"] = Some(FirstLiteral(t))
        ELSE IF CallsFindVersion(t) THEN versions["setup.py"] = versions["__init__.py"]
        ELSE versions["setup.py"] = None

C10_Witness_DelegatedValue ==
    /\ SetupReturned
    /\ Delegating
    /\ versions["setup.py"].some
    /\ versions["setup.py"] = versions["__init__.py"]

\* C6 as stated: a step of the SetupScript, ContainerFile or CIWorkflow
\* extractor never prints a line.
C6_OptionalExtractorsNeverPrint ==
    [][(pc \in {"setup", "dockerfile", "workflow"}) => (out' = out)]_vars

InitDiagnostics == {NotFoundLine("__init__.py"), NoVersionLine("__init__.py")}

\* C6 amended: the ContainerFile and CIWorkflow extractors never print; the
\* SetupScript extractor prints nothing of its own, and a line is printed during
\* its call only when it delegates to the PackageInit extractor and that one
\* finds no version: then the PackageInit diagnostic is printed a second time.
\* The mandatory extractors print at most one line, about their own file.
C6_OnlyMandatoryExtractorsPrint ==
    [][/\ pc \in {"dockerfile", "workflow"} => out' = out
       /\ pc = "setup" =>
             IF Delegating /\ ~versions["__init__.py"].some
             THEN /\ Len(out') = Len(out) + 1
                  /\ SubSeq(out', 1, Len(out)) = out
                  /\ out'[Len(out')] \in InitDiagnostics
                  /\ \E i \in DOMAIN out : out[i] = out'[Len(out')]
             ELSE out' = out
       /\ pc = "init" =>
             \/ out' = out
             \/ \E d \in InitDiagnostics : out' = Append(out, d)
       /\ pc = "pyproject" =>
             \/ out' = out
             \/ \E d \in {NotFoundLine("pyproject.toml"), NoVersionLine("pyproject.toml")} :
                   out' = Append(out, d)]_vars

C6_Witness_DelegationRepeatsDiagnostic ==
    /\ pc = "dockerfile"
    /\ Delegating
    /\ Len(out) = 3
    /\ out[2] = out[3]
    /\ out[3] \in InitDiagnostics

MismatchWithMandatoryMissing ==
    /\ Returned
    /\ Cardinality(Distinct) > 1
    /\ ~(Mandatory \subseteq Found)

\* C7 as stated: when the found values disagree and a mandatory artifact
\* contributed no value, the mismatch output comes before any output saying
\* that the required file is missing, and no such output follows it.
C7_MismatchBeforeAnyMissingOutput ==
    MismatchWithMandatoryMissing =>
        /\ exit = 1
        /\ \E m \in LinesOf({"version_mismatch"}) :
              /\ \A j \in LinesOf({"not_found", "missing_from_required"}) : m < j
              /\ \A j \in LinesOf({"missing_from_required"}) : j < m

\* C7 amended: in such a run the reconciler ends with the mismatch report and
\* exit code 1 and never prints that the version is missing from the required
\* files; the only output about the missing artifact is the diagnostic of its
\* own extractor, printed during extraction, before the mismatch report.
C7_MismatchVerdictWithoutRequiredMessage ==
    MismatchWithMandatoryMissing =>
        /\ exit = 1
        /\ LinesOf({"missing_from_required"}) = {}
        /\ out[Len(out)] = EnsureLine
        /\ \E m \in LinesOf({"version_mismatch"}) :
              /\ LinesOf({"version_mismatch"}) = {m}
              /\ \A j \in LinesOf({"pair"}) : m < j
              /\ \A j \in LinesOf({"not_found", "no_version_in"}) : j < m
              /\ \A f \in Mandatory \ Found :
                    \E j \in LinesOf({"not_found", "no_version_in"}) : out[j].file = f

C7_Witness_MismatchAndMissingMandatory ==
    /\ MismatchWithMandatoryMissing
    /\ fs["pyproject.toml"] = Absent
    /\ out[2] = NotFoundLine("pyproject.toml")
    /\ out[3] = MismatchLine

\* C9: all runs over the files give the same exit status and the same output
\* lines, and no step of a run changes a file.
RunsAgree == \A i \in DOMAIN runs, j \in DOMAIN runs : runs[i] = runs[j]

====
